---- MODULE Spec2Model ----
(***************************************************************************)
(* State-machine model of the card-battle game in src/src/main.rs and      *)
(* src/src/card.rs: the per-frame Battle system chain (card countdowns,    *)
(* attack emission, effect application, death checks), the GameState       *)
(* transitions with their OnEnter/OnExit systems, and the pointer-click    *)
(* observers (loot all, new run).                                          *)
(*                                                                         *)
(* Time is counted in units of half a second: the 3.0 s enemy card period  *)
(* is 6 units, a 0.5 s frequency is 1 unit.  One Frame action is one pass  *)
(* of the engine's main schedule: the pending state transition is applied, *)
(* then the Update systems run.                                            *)
(***************************************************************************)
EXTENDS Integers, Sequences, FiniteSets, TLC

VARIABLES
    state,            \* State<GameState>: the current phase
    next_state,       \* NextState<GameState>: "None" or the pending phase
    playerHealth,     \* PlayerHealth.0 of the player entity
    playerEffects,    \* Effects.effects of the player entity
    playerCards,      \* the PlayerCard children: effect, period, elapsed
    enemyCount,       \* number of EnemyEntity entities
    enemyExists,      \* whether an EnemyEntity is spawned
    enemyHealth,      \* EnemyHealth.0 of the enemy entity
    enemyEffects,     \* Effects.effects of the enemy entity
    enemyCards,       \* the EnemyCard children of the enemy entity
    lootScreens,      \* the LootScreen entities, each the sequence of its LootItems
    gameMenus,        \* number of GameMenu entities
    menuItems,        \* number of MenuItem (game-over screen) entities
    inventory,        \* Inventory.items
    clicked,          \* whether the pointer was clicked since the last frame
    frames,           \* history: number of frames run so far
    last              \* history: what the most recent Frame did

vars == <<state, next_state, playerHealth, playerEffects, playerCards, enemyCount,
          enemyExists,
          enemyHealth, enemyEffects, enemyCards, lootScreens, gameMenus, menuItems,
          inventory, clicked, frames, last>>

(***************************************************************************)
(* Bounds of the model.                                                    *)
(***************************************************************************)
MaxDt == 3          \* largest elapsed time of one frame, in time units
MaxFrames == 5      \* frames explored from the initial state
MaxDuration == 5    \* longest DamageOverTime duration of the effect-pass harness

(***************************************************************************)
(* Program constants.                                                      *)
(***************************************************************************)
StartHealth == 100
EnemyCardPeriod == 6
LootCount == 10

Min(a, b) == IF a < b THEN a ELSE b

GameStates == {"Battle", "LootScreen", "Menu", "GameOver"}

(***************************************************************************)
(* bevy Timer.  A timer is its elapsed time; the duration is kept by the   *)
(* owner.  TimerMode::Once stays at the duration once it got there,        *)
(* TimerMode::Repeating wraps and is finished only for the tick in which   *)
(* it wrapped.                                                             *)
(***************************************************************************)
OnceFinished(elapsed, duration) == elapsed >= duration

\* A plausible slip: the one-shot timer is never ticked.
TickOnceStalled(elapsed, duration, dt) == elapsed

TickOnce(elapsed, duration, dt) ==
    IF OnceFinished(elapsed, duration) THEN elapsed ELSE Min(elapsed + dt, duration)

RepeatingFinished(elapsed, period, dt) == elapsed + dt >= period

TimesFinished(elapsed, period, dt) == (elapsed + dt) \div period

\* Mutant of TickRepeating: the timer is reset when it completes, dropping
\* the time left over.
TickRepeatingReset(elapsed, period, dt) ==
    IF RepeatingFinished(elapsed, period, dt) THEN 0 ELSE elapsed + dt

TickRepeating(elapsed, period, dt) ==
    IF RepeatingFinished(elapsed, period, dt) THEN (elapsed + dt) % period ELSE elapsed + dt

(***************************************************************************)
(* CardEffect and ActiveEffect.  Every record has the same fields; the     *)
(* ones a kind does not have are 0.  d and f are the elapsed times of the  *)
(* duration and frequency timers.  `applied` and `longest` are history     *)
(* fields: how often the entry has changed its owner's health, and the     *)
(* longest elapsed time it was ticked with.                                *)
(***************************************************************************)
DirectDamage(a) == [kind |-> "DirectDamage", amount |-> a, duration |-> 0, frequency |-> 0]
DamageOverTime(a, d, f) ==
    [kind |-> "DamageOverTime", amount |-> a, duration |-> d, frequency |-> f]
Stun(d) == [kind |-> "Stun", amount |-> 0, duration |-> d, frequency |-> 0]
Heal(a) == [kind |-> "Heal", amount |-> a, duration |-> 0, frequency |-> 0]

\* Outcomes of CardEffect::get_random_effect, one per kind, inside its ranges
\* (damage 5..19, DOT 2..7 over 2.0..5.0 s every 0.3..1.0 s, stun 1.0..3.0 s,
\* heal 5..14).
get_random_effect == {DirectDamage(19), DamageOverTime(7, 4, 1), Stun(3), Heal(14)}

\* The ActiveEffect pushed for a CardEffect by enemy_auto_attack.
enemy_instantiate(spec) ==
    CASE spec.kind = "DamageOverTime" ->
            [kind |-> "DamageOverTime", amount |-> spec.amount, duration |-> spec.duration,
             frequency |-> spec.frequency, d |-> 0, f |-> 0, applied |-> 0, longest |-> 0]
      [] spec.kind = "DirectDamage" ->
            [kind |-> "DirectDamage", amount |-> spec.amount, duration |-> 0,
             frequency |-> 0, d |-> 0, f |-> 0, applied |-> 0, longest |-> 0]
      [] spec.kind = "Stun" ->
            [kind |-> "Stun", amount |-> 0, duration |-> spec.duration,
             frequency |-> 0, d |-> 0, f |-> 0, applied |-> 0, longest |-> 0]
      [] spec.kind = "Heal" ->
            [kind |-> "Heal", amount |-> spec.amount, duration |-> 0,
             frequency |-> 0, d |-> 0, f |-> 0, applied |-> 0, longest |-> 0]

\* A plausible slip of player_auto_attack: the two countdowns of a
\* DamageOverTime are built from each other's length.
player_instantiate_swapped(spec) ==
    IF spec.kind = "DamageOverTime"
    THEN [kind |-> "DamageOverTime", amount |-> spec.amount, duration |-> spec.frequency,
          frequency |-> spec.duration, d |-> 0, f |-> 0, applied |-> 0, longest |-> 0]
    ELSE [kind |-> spec.kind, amount |-> spec.amount, duration |-> spec.duration,
          frequency |-> 0, d |-> 0, f |-> 0, applied |-> 0, longest |-> 0]

\* The ActiveEffect pushed for a CardEffect by player_auto_attack.
player_instantiate(spec) ==
    CASE spec.kind = "DamageOverTime" ->
            [kind |-> "DamageOverTime", amount |-> spec.amount, duration |-> spec.duration,
             frequency |-> spec.frequency, d |-> 0, f |-> 0, applied |-> 0, longest |-> 0]
      [] spec.kind = "DirectDamage" ->
            [kind |-> "DirectDamage", amount |-> spec.amount, duration |-> 0,
             frequency |-> 0, d |-> 0, f |-> 0, applied |-> 0, longest |-> 0]
      [] spec.kind = "Stun" ->
            [kind |-> "Stun", amount |-> 0, duration |-> spec.duration,
             frequency |-> 0, d |-> 0, f |-> 0, applied |-> 0, longest |-> 0]
      [] spec.kind = "Heal" ->
            [kind |-> "Heal", amount |-> spec.amount, duration |-> 0,
             frequency |-> 0, d |-> 0, f |-> 0, applied |-> 0, longest |-> 0]

\* Mutant of PlayerCardTarget: a player's Heal goes to the enemy as well.
PlayerCardTargetOpponent(kind) == "enemy"

\* Which effect list a card's effect is pushed to.
EnemyCardTarget(kind) == "player"

PlayerCardTarget(kind) == IF kind = "Heal" THEN "player" ELSE "enemy"

(***************************************************************************)
(* Effect application: one arm of the match in calculate_player_effects    *)
(* and calculate_enemy_effects.                                            *)
(***************************************************************************)
\* Mutant of DotApplications: one application per completed cycle.
DotApplicationsPerCycle(e, dt) == TimesFinished(e.f, e.frequency, dt)

\* How often a DamageOverTime entry subtracts its damage in one pass.
DotApplications(e, dt) == IF RepeatingFinished(e.f, e.frequency, dt) THEN 1 ELSE 0

Max(a, b) == IF a > b THEN a ELSE b

\* The entry after its timers were ticked.
TickEffect(e, dt) ==
    CASE e.kind = "DamageOverTime" ->
            [e EXCEPT !.d = TickOnce(e.d, e.duration, dt),
                      !.f = TickRepeating(e.f, e.frequency, dt),
                      !.applied = @ + DotApplications(e, dt),
                      !.longest = Max(@, dt)]
      [] e.kind = "DirectDamage" -> [e EXCEPT !.applied = @ + 1]
      [] e.kind = "Stun" ->
            [e EXCEPT !.d = TickOnce(e.d, e.duration, dt), !.longest = Max(@, dt)]
      [] e.kind = "Heal" -> [e EXCEPT !.applied = @ + 1]

\* What the entry adds to its owner's health in one pass.
HealthChange(e, dt) ==
    CASE e.kind = "DamageOverTime" -> 0 - e.amount * DotApplications(e, dt)
      [] e.kind = "DirectDamage" -> 0 - e.amount
      [] e.kind = "Stun" -> 0
      [] e.kind = "Heal" -> e.amount

\* Mutant of Continued: a Heal is pushed to continued_effects too.
ContinuedOrHeal(e) ==
    \/ e.kind \in {"DamageOverTime", "Stun"} /\ ~OnceFinished(e.d, e.duration)
    \/ e.kind = "Heal"

\* Mutant of Continued: an entry is dropped only past its duration.
ContinuedAtDuration(e) ==
    /\ e.kind \in {"DamageOverTime", "Stun"}
    /\ e.d <= e.duration

\* Whether the ticked entry is pushed to continued_effects.
Continued(e) ==
    /\ e.kind \in {"DamageOverTime", "Stun"}
    /\ ~OnceFinished(e.d, e.duration)

RECURSIVE TotalHealthChange(_, _)
TotalHealthChange(effects, dt) ==
    IF effects = <<>> THEN 0
    ELSE HealthChange(Head(effects), dt) + TotalHealthChange(Tail(effects), dt)

\* A plausible slip of the passes: the health is kept within 0..100.
calculate_effects_clamped(effects, health, dt) ==
    LET ticked == [i \in 1..Len(effects) |-> TickEffect(effects[i], dt)]
        Dropped(e) == ~Continued(e)
    IN  [effects |-> SelectSeq(ticked, Continued),
         health |-> Max(0, Min(StartHealth, health + TotalHealthChange(effects, dt))),
         ticked |-> ticked,
         gone |-> SelectSeq(ticked, Dropped)]

\* A plausible slip of the passes: each survivor is put at the front of
\* continued_effects instead of pushed at its end.
calculate_effects_reversed(effects, health, dt) ==
    LET ticked == [i \in 1..Len(effects) |-> TickEffect(effects[i], dt)]
        Dropped(e) == ~Continued(e)
        kept == SelectSeq(ticked, Continued)
    IN  [effects |-> [i \in 1..Len(kept) |-> kept[Len(kept) + 1 - i]],
         health |-> health + TotalHealthChange(effects, dt),
         ticked |-> ticked,
         gone |-> SelectSeq(ticked, Dropped)]

calculate_effects(effects, health, dt) ==
    LET ticked == [i \in 1..Len(effects) |-> TickEffect(effects[i], dt)]
        Dropped(e) == ~Continued(e)
    IN  [effects |-> SelectSeq(ticked, Continued),
         health |-> health + TotalHealthChange(effects, dt),
         ticked |-> ticked,
         gone |-> SelectSeq(ticked, Dropped)]

\* Mutant of calculate_player_effects: the pass is skipped while stunned.
calculate_player_effects_unless_stunned(effects, health, dt) ==
    IF \E i \in 1..Len(effects) : effects[i].kind = "Stun"
    THEN [effects |-> effects, health |-> health, ticked |-> effects, gone |-> <<>>]
    ELSE calculate_effects(effects, health, dt)

calculate_player_effects(effects, health, dt) == calculate_effects(effects, health, dt)

calculate_enemy_effects(effects, health, dt) == calculate_effects(effects, health, dt)

(***************************************************************************)
(* Stun check and card countdowns.                                         *)
(***************************************************************************)
\* A plausible slip of the stun check: a Stun counts only once a pass has
\* ticked its timer.
IsStunnedOnceTicked(effects) ==
    \E i \in 1..Len(effects) :
        /\ effects[i].kind = "Stun"
        /\ effects[i].d > 0
        /\ ~OnceFinished(effects[i].d, effects[i].duration)

IsStunned(effects) ==
    \E i \in 1..Len(effects) :
        /\ effects[i].kind = "Stun"
        /\ ~OnceFinished(effects[i].d, effects[i].duration)

TickCard(card, dt) == [card EXCEPT !.elapsed = TickRepeating(card.elapsed, card.period, dt)]

CardFinished(card, dt) == RepeatingFinished(card.elapsed, card.period, dt)

\* Mutant of update_card_timers: the stun check is left out.
update_card_timers_ungated(cards, is_stunned, dt) ==
    [i \in 1..Len(cards) |-> TickCard(cards[i], dt)]

\* update_card_timers, for the cards of one parent.
update_card_timers(cards, is_stunned, dt) ==
    [i \in 1..Len(cards) |-> IF ~is_stunned THEN TickCard(cards[i], dt) ELSE cards[i]]

\* The loop of enemy_auto_attack from card i on; acc holds the cards, the
\* player's effect list and, per card, whether it pushed an effect.
RECURSIVE EnemyAttackLoop(_, _, _)
EnemyAttackLoop(acc, i, dt) ==
    IF i > Len(acc.cards) THEN acc
    ELSE LET card == acc.cards[i]
             fin == CardFinished(card, dt)
             eff == enemy_instantiate(card.effect)
         IN  EnemyAttackLoop(
                 [cards |-> [acc.cards EXCEPT ![i] = TickCard(card, dt)],
                  player |-> IF fin /\ EnemyCardTarget(card.effect.kind) = "player"
                             THEN Append(acc.player, eff) ELSE acc.player,
                  enemy |-> IF fin /\ EnemyCardTarget(card.effect.kind) = "enemy"
                            THEN Append(acc.enemy, eff) ELSE acc.enemy,
                  fired |-> [acc.fired EXCEPT ![i] = IF fin THEN 1 ELSE 0],
                  ticked |-> [acc.ticked EXCEPT ![i] = 1]],
                 i + 1, dt)

enemy_auto_attack(cards, enemy_effects, player_effects, exists, dt) ==
    LET idle == [cards |-> cards, player |-> player_effects, enemy |-> enemy_effects,
                 fired |-> [i \in 1..Len(cards) |-> 0],
                 ticked |-> [i \in 1..Len(cards) |-> 0]]
    IN  IF ~exists THEN idle
        ELSE IF IsStunned(enemy_effects) THEN idle
        ELSE EnemyAttackLoop(idle, 1, dt)

\* The loop of player_auto_attack from card i on.  A card whose effect goes
\* to the enemy returns from the system when there is no enemy entity.
RECURSIVE PlayerAttackLoop(_, _, _, _)
PlayerAttackLoop(acc, i, exists, dt) ==
    IF i > Len(acc.cards) THEN acc
    ELSE LET card == acc.cards[i]
             fin == CardFinished(card, dt)
             eff == player_instantiate(card.effect)
             target == PlayerCardTarget(card.effect.kind)
             ticked == [acc EXCEPT !.cards[i] = TickCard(card, dt), !.ticked[i] = 1]
         IN  IF ~fin THEN PlayerAttackLoop(ticked, i + 1, exists, dt)
             ELSE IF target = "player"
             THEN PlayerAttackLoop(
                      [ticked EXCEPT !.player = Append(@, eff), !.fired[i] = 1],
                      i + 1, exists, dt)
             ELSE IF exists
             THEN PlayerAttackLoop(
                      [ticked EXCEPT !.enemy = Append(@, eff), !.fired[i] = 1],
                      i + 1, exists, dt)
             ELSE ticked

\* A plausible slip: player_auto_attack without its stun check.
player_auto_attack_unchecked(cards, player_effects, enemy_effects, exists, dt) ==
    LET idle == [cards |-> cards, player |-> player_effects, enemy |-> enemy_effects,
                 fired |-> [i \in 1..Len(cards) |-> 0],
                 ticked |-> [i \in 1..Len(cards) |-> 0]]
    IN  PlayerAttackLoop(idle, 1, exists, dt)

player_auto_attack(cards, player_effects, enemy_effects, exists, dt) ==
    LET idle == [cards |-> cards, player |-> player_effects, enemy |-> enemy_effects,
                 fired |-> [i \in 1..Len(cards) |-> 0],
                 ticked |-> [i \in 1..Len(cards) |-> 0]]
    IN  IF IsStunned(player_effects) THEN idle
        ELSE PlayerAttackLoop(idle, 1, exists, dt)

(***************************************************************************)
(* Death checks and the inventory key: the writers of NextState.           *)
(***************************************************************************)
EnemyDead(health) == health <= 0

PlayerDead(health) == health <= 0

\* check_enemy_death: the pending state it leaves.
check_enemy_death(pending, exists, health) ==
    LET alive_enemies == IF exists /\ ~EnemyDead(health) THEN 1 ELSE 0
    IN  IF alive_enemies = 0 THEN "LootScreen" ELSE pending

\* A plausible slip: check_player_death is missing from the chain.
check_player_death_skipped(pending, health) == pending

\* check_player_death: the pending state it leaves.
check_player_death(pending, health) ==
    LET alive_players == IF ~PlayerDead(health) THEN 1 ELSE 0
    IN  IF alive_players = 0 THEN "GameOver" ELSE pending

\* toggle_ui: the pending state it leaves.
toggle_ui(pending, just_pressed, current) ==
    IF just_pressed
    THEN IF current = "Battle" THEN "Menu" ELSE "Battle"
    ELSE pending

(***************************************************************************)
(* Cards, decks and loot.                                                  *)
(***************************************************************************)
Card(effect, period) == [effect |-> effect, period |-> period, elapsed |-> 0]

\* add_card: an enemy card.
add_card(effect) == Card(effect, EnemyCardPeriod)

\* Sampled outcomes of on_enter_battle: 1..3 cards, each a random effect.
EnemyDecks ==
    { <<add_card(DirectDamage(19)), add_card(DirectDamage(19)), add_card(DirectDamage(19))>>,
      <<add_card(Stun(3)), add_card(DamageOverTime(7, 4, 1))>>,
      <<add_card(Heal(14))>>,
      <<add_card(DamageOverTime(7, 4, 1))>> }

\* Sampled outcomes of setup: 1..3 cards, each a random effect with a period
\* of 1.0..3.0 s.
PlayerDecks ==
    { <<Card(DirectDamage(19), 3), Card(DirectDamage(19), 3), Card(DirectDamage(19), 3)>>,
      <<Card(DirectDamage(19), 3), Card(DirectDamage(19), 3)>>,
      <<Card(Stun(3), 2), Card(DamageOverTime(7, 4, 1), 4)>>,
      <<Card(Heal(14), 5)>> }

LootItem(name, rarity) == [name |-> name, rarity |-> rarity]

\* Sampled outcomes of the loot roll of spawn_loot_screen.
LootRolls ==
    { [i \in 1..LootCount |-> LootItem("Health Potion", "Common")],
      [i \in 1..LootCount |->
          IF i % 2 = 0 THEN LootItem("Magic Sword", "Rare")
          ELSE LootItem("Ancient Relic", "Epic")] }

RECURSIVE Flatten(_)
Flatten(seqs) == IF seqs = <<>> THEN <<>> ELSE Head(seqs) \o Flatten(Tail(seqs))

(***************************************************************************)
(* The state transition at the start of a frame: OnExit of the old state,  *)
(* OnEnter of the new one.  Setting the state that is already current      *)
(* consumes the pending value and runs neither.  w holds the entities.     *)
(***************************************************************************)
despawn_loot_screen(w) ==
    IF Len(w.lootScreens) = 1 THEN [w EXCEPT !.lootScreens = <<>>] ELSE w

despawn_menu(w) ==
    IF w.gameMenus = 1 THEN [w EXCEPT !.gameMenus = 0] ELSE w

spawn_menu(w) == [w EXCEPT !.gameMenus = @ + 1]

show_game_over(w) == [w EXCEPT !.menuItems = @ + 1]

despawn_battle_entities(w) ==
    [w EXCEPT !.enemyCount = 0, !.enemyExists = FALSE, !.enemyHealth = 0,
              !.enemyEffects = <<>>, !.enemyCards = <<>>]

spawn_loot_screen(w, roll) == [w EXCEPT !.lootScreens = Append(@, roll)]

\* A plausible slip of on_enter_battle: the early return is missing.
on_enter_battle_unguarded(w, deck) ==
    [w EXCEPT !.enemyCount = @ + 1,
              !.enemyExists = TRUE, !.enemyHealth = StartHealth,
              !.enemyEffects = <<>>, !.enemyCards = deck]

\* A plausible slip of on_enter_battle: a new enemy meets a restored player.
on_enter_battle_restoring(w, deck) ==
    IF w.enemyCount = 1 THEN w
    ELSE [w EXCEPT !.enemyCount = @ + 1,
                   !.enemyExists = TRUE, !.enemyHealth = StartHealth,
                   !.enemyEffects = <<>>, !.enemyCards = deck,
                   !.playerHealth = StartHealth, !.playerEffects = <<>>]

\* enemy_query.get_single() is Ok when exactly one EnemyEntity exists.
on_enter_battle(w, deck) ==
    IF w.enemyCount = 1 THEN w
    ELSE [w EXCEPT !.enemyCount = @ + 1,
                   !.enemyExists = TRUE, !.enemyHealth = StartHealth,
                   !.enemyEffects = <<>>, !.enemyCards = deck]

OnExit(w, old) ==
    CASE old = "LootScreen" -> despawn_loot_screen(w)
      [] old = "Menu" -> despawn_menu(w)
      [] OTHER -> w

OnEnter(w, new, deck, roll) ==
    CASE new = "Battle" -> on_enter_battle(w, deck)
      [] new = "LootScreen" -> spawn_loot_screen(despawn_battle_entities(w), roll)
      [] new = "Menu" -> spawn_menu(w)
      [] new = "GameOver" -> show_game_over(w)

StateChanges(current, pending) == pending # "None" /\ pending # current

StateTransition(w, current, pending, deck, roll) ==
    IF StateChanges(current, pending)
    THEN OnEnter(OnExit(w, current), pending, deck, roll)
    ELSE w

(***************************************************************************)
(* The two effect-application systems on the entities: each reads and      *)
(* writes the Effects and the health of the one entity its query matches.  *)
(***************************************************************************)
\* A plausible slip: one effect collection for both combatants, applied by
\* the player's pass.
player_effects_pass_shared(w, dt) ==
    LET r == calculate_player_effects(w.playerEffects \o w.enemyEffects, w.playerHealth, dt)
    IN  [w EXCEPT !.playerHealth = r.health, !.playerEffects = r.effects,
                  !.enemyEffects = <<>>]

player_effects_pass(w, dt) ==
    LET r == calculate_player_effects(w.playerEffects, w.playerHealth, dt)
    IN  [w EXCEPT !.playerHealth = r.health, !.playerEffects = r.effects]

enemy_effects_pass(w, dt) ==
    IF ~w.enemyExists THEN w
    ELSE LET r == calculate_enemy_effects(w.enemyEffects, w.enemyHealth, dt)
         IN  [w EXCEPT !.enemyHealth = r.health, !.enemyEffects = r.effects]

(***************************************************************************)
(* The chained Update systems that run in GameState::Battle.               *)
(***************************************************************************)
BattleSystems(w, dt) ==
    LET player_stunned == IsStunned(w.playerEffects)
        enemy_stunned == w.enemyExists /\ IsStunned(w.enemyEffects)
        pc1 == update_card_timers(w.playerCards, player_stunned, dt)
        ec1 == update_card_timers(w.enemyCards, enemy_stunned, dt)
        ea == enemy_auto_attack(ec1, w.enemyEffects, w.playerEffects, w.enemyExists, dt)
        pa == player_auto_attack(pc1, ea.player, ea.enemy, w.enemyExists, dt)
        cp == calculate_player_effects(pa.player, w.playerHealth, dt)
        ce == IF w.enemyExists
              THEN calculate_enemy_effects(pa.enemy, w.enemyHealth, dt)
              ELSE [effects |-> pa.enemy, health |-> w.enemyHealth,
                    ticked |-> <<>>, gone |-> <<>>]
        attacked == [w EXCEPT !.playerEffects = pa.player, !.playerCards = pa.cards,
                              !.enemyEffects = pa.enemy, !.enemyCards = ea.cards]
        applied == enemy_effects_pass(player_effects_pass(attacked, dt), dt)
        despawn == applied.enemyExists /\ EnemyDead(applied.enemyHealth)
    IN  [w |-> [applied EXCEPT !.enemyCount = IF despawn THEN @ - 1 ELSE @,
                               !.enemyExists = @ /\ ~despawn,
                               !.enemyHealth = IF despawn THEN 0 ELSE @,
                               !.enemyEffects = IF despawn THEN <<>> ELSE @,
                               !.enemyCards = IF despawn THEN <<>> ELSE @],
         enemyHealthChecked |-> ce.health,
         log |-> [ran |-> TRUE, dt |-> dt,
                  enemyExisted |-> w.enemyExists,
                  enemyCount0 |-> w.enemyCount,
                  playerStunned |-> player_stunned,
                  enemyStunned |-> enemy_stunned,
                  playerCards0 |-> w.playerCards,
                  enemyCards0 |-> w.enemyCards,
                  playerCards1 |-> pc1,
                  enemyCards1 |-> ec1,
                  enemyCards2 |-> ea.cards,
                  playerFired |-> pa.fired,
                  enemyFired |-> ea.fired,
                  playerTicked |-> pa.ticked,
                  enemyTicked |-> ea.ticked,
                  playerEffects0 |-> w.playerEffects,
                  enemyEffects0 |-> w.enemyEffects,
                  playerEffects1 |-> ea.player,
                  enemyEffects1 |-> ea.enemy,
                  playerEffects2 |-> pa.player,
                  enemyEffects2 |-> pa.enemy,
                  playerHealth0 |-> w.playerHealth,
                  enemyHealth0 |-> w.enemyHealth,
                  playerApplied |-> cp.ticked,
                  enemyApplied |-> ce.ticked,
                  playerGone |-> cp.gone,
                  enemyGone |-> ce.gone,
                  enemyEffects3 |-> ce.effects,
                  enemyHealth3 |-> ce.health]]

NoLog ==
    [ran |-> FALSE, dt |-> 0, enemyExisted |-> FALSE, enemyCount0 |-> 0,
     playerStunned |-> FALSE, enemyStunned |-> FALSE,
     playerCards0 |-> <<>>, enemyCards0 |-> <<>>, playerCards1 |-> <<>>,
     enemyCards1 |-> <<>>, enemyCards2 |-> <<>>,
     playerFired |-> <<>>, enemyFired |-> <<>>,
     playerTicked |-> <<>>, enemyTicked |-> <<>>,
     playerApplied |-> <<>>, enemyApplied |-> <<>>,
     playerEffects0 |-> <<>>, enemyEffects0 |-> <<>>,
     playerEffects1 |-> <<>>, enemyEffects1 |-> <<>>,
     playerEffects2 |-> <<>>, enemyEffects2 |-> <<>>,
     playerHealth0 |-> 0, enemyHealth0 |-> 0,
     playerGone |-> <<>>, enemyGone |-> <<>>,
     enemyEffects3 |-> <<>>, enemyHealth3 |-> 0]

\* Where toggle_ui runs relative to the two death checks of the chain: it is
\* not ordered against them, only serialized by the shared NextState.
KeyOrders == {"first", "between", "last"}

\* The pending state after the Update systems of one frame.
PendingAfterUpdate(current, in_battle, enemy_exists, enemy_health, player_health, key) ==
    LET t(p, at) == toggle_ui(p, key = at, current)
        e(p) == IF in_battle THEN check_enemy_death(p, enemy_exists, enemy_health) ELSE p
        q(p) == IF in_battle THEN check_player_death(p, player_health) ELSE p
    IN  t(q(t(e(t("None", "first")), "between")), "last")

World ==
    [playerHealth |-> playerHealth, playerEffects |-> playerEffects,
     playerCards |-> playerCards, enemyCount |-> enemyCount,
     enemyExists |-> enemyExists,
     enemyHealth |-> enemyHealth, enemyEffects |-> enemyEffects,
     enemyCards |-> enemyCards, lootScreens |-> lootScreens,
     gameMenus |-> gameMenus, menuItems |-> menuItems]

SetWorld(w) ==
    /\ playerHealth' = w.playerHealth
    /\ playerEffects' = w.playerEffects
    /\ playerCards' = w.playerCards
    /\ enemyCount' = w.enemyCount
    /\ enemyExists' = w.enemyExists
    /\ enemyHealth' = w.enemyHealth
    /\ enemyEffects' = w.enemyEffects
    /\ enemyCards' = w.enemyCards
    /\ lootScreens' = w.lootScreens
    /\ gameMenus' = w.gameMenus
    /\ menuItems' = w.menuItems

(***************************************************************************)
(* Actions.                                                                *)
(***************************************************************************)
Init ==
    /\ state = "Battle"
    /\ next_state = "None"
    /\ playerHealth = StartHealth
    /\ playerEffects = <<>>
    /\ playerCards \in PlayerDecks
    /\ enemyCount = 1
    /\ enemyExists = TRUE
    /\ enemyHealth = StartHealth
    /\ enemyEffects = <<>>
    /\ enemyCards \in EnemyDecks
    /\ lootScreens = <<>>
    /\ gameMenus = 0
    /\ menuItems = 0
    /\ inventory = <<>>
    /\ clicked = FALSE
    /\ frames = 0
    /\ last = NoLog @@ [changed |-> FALSE, from |-> "Battle", key |-> FALSE]

\* A plausible slip: the Battle chain without its run condition.
in_state_any(current, s) == TRUE

\* The run condition in_state(GameState::Battle) of the Battle chain.
in_state(current, s) == current = s

\* One frame: the state transition, then Update.  dt is the frame's elapsed
\* time, key whether and where toggle_ui sees the inventory key pressed.
Frame(dt, key, deck, roll) ==
    LET current == IF next_state = "None" THEN state ELSE next_state
        changed == StateChanges(state, next_state)
        w1 == StateTransition(World, state, next_state, deck, roll)
        in_battle == in_state(current, "Battle")
        b == BattleSystems(w1, dt)
        w2 == IF in_battle THEN b.w ELSE w1
        log == IF in_battle THEN b.log ELSE NoLog
    IN  /\ frames < MaxFrames
        /\ state' = current
        /\ next_state' = PendingAfterUpdate(current, in_battle, w1.enemyExists,
                                            b.enemyHealthChecked, w2.playerHealth, key)
        /\ SetWorld(w2)
        /\ inventory' = inventory
        /\ clicked' = FALSE
        /\ frames' = frames + 1
        /\ last' = log @@ [changed |-> changed, from |-> state, key |-> key # "none"]

\* Plausible slips of handle_loot_all: the inventory is overwritten by the
\* loot; the loot is put in front of the inventory.
handle_loot_all_overwrite(items, screens) == Flatten(screens)

handle_loot_all_prepend(items, screens) == Flatten(screens) \o items

\* handle_loot_all: every LootItem in the world is pushed to the inventory.
handle_loot_all(items, screens) == items \o Flatten(screens)

\* Pointer<Click> on the "Loot All" button: handle_loot_all.  The pointer
\* delivers at most one click per frame, before the state transition.
ClickLootAll ==
    /\ ~clicked
    /\ frames < MaxFrames
    /\ lootScreens # <<>>
    /\ clicked' = TRUE
    /\ inventory' = handle_loot_all(inventory, lootScreens)
    /\ next_state' = "Battle"
    /\ UNCHANGED <<state, playerHealth, playerEffects, playerCards, enemyCount, enemyExists,
                   enemyHealth, enemyEffects, enemyCards, lootScreens, gameMenus,
                   menuItems, frames, last>>

\* Pointer<Click> on the "New run" button of a game-over screen: respawn_on.
\* The clicked entity is the button, which has no PlayerHealth.
ClickNewRun ==
    /\ ~clicked
    /\ frames < MaxFrames
    /\ menuItems >= 1
    /\ clicked' = TRUE
    /\ next_state' = "Battle"
    /\ menuItems' = IF menuItems = 1 THEN 0 ELSE menuItems
    /\ UNCHANGED <<state, playerHealth, playerEffects, playerCards, enemyCount, enemyExists,
                   enemyHealth, enemyEffects, enemyCards, lootScreens, gameMenus,
                   inventory, frames, last>>

\* The random draws a frame makes: a deck when on_enter_battle spawns an
\* enemy, a loot roll when the loot screen is spawned.
DecksDrawn ==
    IF StateChanges(state, next_state) /\ next_state = "Battle" /\ enemyCount # 1
    THEN EnemyDecks ELSE {<<>>}

RollsDrawn ==
    IF StateChanges(state, next_state) /\ next_state = "LootScreen"
    THEN LootRolls ELSE {<<>>}

\* The elapsed time of a frame and the place of toggle_ui among the death
\* checks matter only to a frame that runs the Battle chain.
TimesDrawn ==
    IF in_state(IF next_state = "None" THEN state ELSE next_state, "Battle")
    THEN 1..MaxDt ELSE {1}

KeysDrawn ==
    IF in_state(IF next_state = "None" THEN state ELSE next_state, "Battle")
    THEN KeyOrders \cup {"none"} ELSE {"first", "none"}

Tick ==
    \E dt \in TimesDrawn, key \in KeysDrawn,
       deck \in DecksDrawn, roll \in RollsDrawn :
        Frame(dt, key, deck, roll)

Next == Tick \/ ClickLootAll \/ ClickNewRun

Spec == Init /\ [][Next]_vars

(***************************************************************************)
(* The game from a loot screen reached after earlier battles: the          *)
(* inventory already holds the loot of zero or one earlier loot screen,    *)
(* the enemy is gone and a fresh loot screen is shown.  The player has     *)
(* taken no damage (the earlier enemy held no damaging card).              *)
(***************************************************************************)
PriorInventories == {<<>>, [i \in 1..LootCount |-> LootItem("Health Potion", "Common")]}

InitLoot ==
    /\ state = "LootScreen"
    /\ next_state = "None"
    /\ playerHealth = StartHealth
    /\ playerEffects = <<>>
    /\ playerCards = <<Card(DirectDamage(19), 3), Card(DirectDamage(19), 3)>>
    /\ enemyCount = 0
    /\ enemyExists = FALSE
    /\ enemyHealth = 0
    /\ enemyEffects = <<>>
    /\ enemyCards = <<>>
    /\ lootScreens \in { <<r>> : r \in LootRolls }
    /\ gameMenus = 0
    /\ menuItems = 0
    /\ inventory \in PriorInventories
    /\ clicked = FALSE
    /\ frames = 0
    /\ last = NoLog @@ [changed |-> TRUE, from |-> "Battle", key |-> FALSE]

NextLoot == Tick \/ ClickLootAll

SpecLoot == InitLoot /\ [][NextLoot]_vars

(***************************************************************************)
(* The effect passes on their own: calculate_player_effects and            *)
(* calculate_enemy_effects applied, pass after pass, to a list that starts *)
(* with one freshly attached DamageOverTime of any duration up to          *)
(* MaxDuration and any frequency up to the duration.                       *)
(***************************************************************************)
DotShapes == { x \in (1..MaxDuration) \X (1..MaxDuration) : x[2] <= x[1] }

\* The list of a combatant the other one's card has just pushed one
\* DamageOverTime to.
FreshDots(owner) ==
    { <<IF owner = "player" THEN enemy_instantiate(DamageOverTime(7, x[1], x[2]))
                            ELSE player_instantiate(DamageOverTime(7, x[1], x[2]))>> :
        x \in DotShapes }

InitPass ==
    /\ state = "Battle"
    /\ next_state = "None"
    /\ playerHealth = StartHealth
    /\ playerEffects \in {<<>>} \cup FreshDots("player")
    /\ playerCards = <<>>
    /\ enemyCount = 1
    /\ enemyExists = TRUE
    /\ enemyHealth = StartHealth
    /\ enemyEffects \in {<<>>} \cup FreshDots("enemy")
    /\ (playerEffects = <<>>) # (enemyEffects = <<>>)
    /\ enemyCards = <<>>
    /\ lootScreens = <<>>
    /\ gameMenus = 0
    /\ menuItems = 0
    /\ inventory = <<>>
    /\ clicked = FALSE
    /\ frames = 0
    /\ last = NoLog @@ [changed |-> FALSE, from |-> "Battle", key |-> FALSE]

PlayerPass(dt) ==
    LET r == calculate_player_effects(playerEffects, playerHealth, dt)
    IN  /\ playerEffects # <<>>
        /\ playerEffects' = r.effects
        /\ playerHealth' = r.health
        /\ last' = [last EXCEPT !.dt = dt, !.playerHealth0 = playerHealth,
                                !.playerEffects2 = playerEffects,
                                !.playerApplied = r.ticked, !.playerGone = r.gone]
        /\ UNCHANGED <<state, next_state, playerCards, enemyCount, enemyExists, enemyHealth,
                       enemyEffects, enemyCards, lootScreens, gameMenus, menuItems,
                       inventory, clicked, frames>>

EnemyPass(dt) ==
    LET r == calculate_enemy_effects(enemyEffects, enemyHealth, dt)
    IN  /\ enemyEffects # <<>>
        /\ enemyEffects' = r.effects
        /\ enemyHealth' = r.health
        /\ last' = [last EXCEPT !.dt = dt, !.enemyHealth0 = enemyHealth,
                                !.enemyEffects2 = enemyEffects,
                                !.enemyApplied = r.ticked, !.enemyGone = r.gone,
                                !.enemyEffects3 = r.effects, !.enemyHealth3 = r.health]
        /\ UNCHANGED <<state, next_state, playerHealth, playerEffects, playerCards,
                       enemyCount, enemyExists, enemyCards, lootScreens, gameMenus, menuItems,
                       inventory, clicked, frames>>

PlayerPasses == \E dt \in 1..MaxDt : PlayerPass(dt)

EnemyPasses == \E dt \in 1..MaxDt : EnemyPass(dt)

NextPass == PlayerPasses \/ EnemyPasses

SpecPass == InitPass /\ [][NextPass]_vars

(***************************************************************************)
(* Properties.  `last` describes the frame that led to the current state:  *)
(* ...0 is a value at the start of the Battle systems, ...1 after          *)
(* enemy_auto_attack, ...2 after player_auto_attack, ...3 after the effect *)
(* passes and before the death checks.                                     *)
(***************************************************************************)
EffectKinds == {"DirectDamage", "DamageOverTime", "Stun", "Heal"}

NoneFired(fired) == \A i \in 1..Len(fired) : fired[i] = 0

Among(e, effects) == \E j \in 1..Len(effects) : effects[j] = e

\* C1: in a Battle step at whose start a combatant holds an unexpired Stun,
\* none of its card countdowns is advanced and none of its cards emits an
\* effect.
C1_StunFreezesCards ==
    last.ran =>
        /\ last.playerStunned =>
              /\ playerCards = last.playerCards0
              /\ NoneFired(last.playerFired)
              /\ last.playerEffects2 = last.playerEffects1
              /\ last.enemyEffects2 = last.enemyEffects1
        /\ last.enemyStunned =>
              /\ last.enemyCards2 = last.enemyCards0
              /\ NoneFired(last.enemyFired)
              /\ last.playerEffects1 = last.playerEffects0
              /\ last.enemyEffects1 = last.enemyEffects0

\* A step ran with the enemy stunned at its start, the enemy holding cards
\* and the player not stunned.
C1_Witness ==
    /\ last.ran
    /\ last.enemyStunned
    /\ ~last.playerStunned
    /\ Len(last.enemyCards0) > 0

\* What one effect-application pass over `effects` must add to the owner's
\* health: each DirectDamage and each DamageOverTime whose frequency timer
\* completes in the pass takes its amount, each Heal gives it.
RECURSIVE HealthDue(_, _)
HealthDue(effects, dt) ==
    IF effects = <<>> THEN 0
    ELSE LET e == Head(effects)
             own == CASE e.kind = "DirectDamage" -> 0 - e.amount
                      [] e.kind = "Heal" -> e.amount
                      [] e.kind = "Stun" -> 0
                      [] e.kind = "DamageOverTime" ->
                            IF e.f + dt >= e.frequency THEN 0 - e.amount ELSE 0
         IN  own + HealthDue(Tail(effects), dt)

\* Every DamageOverTime entry of `before` has, in `after`, both timers
\* advanced by dt and one more application iff its frequency completed.
DotsAdvanced(before, after, dt) ==
    /\ Len(after) = Len(before)
    /\ \A i \in 1..Len(before) :
          before[i].kind = "DamageOverTime" =>
              /\ after[i].d = Min(before[i].d + dt, before[i].duration)
              /\ after[i].f = (before[i].f + dt) % before[i].frequency
              /\ after[i].applied = before[i].applied
                    + (IF before[i].f + dt >= before[i].frequency THEN 1 ELSE 0)

\* C2: in a Battle step at whose start a combatant holds an unexpired Stun,
\* its DamageOverTime entries still have both timers advanced by the elapsed
\* time and still take their amount from its health when the frequency timer
\* completes in the step, while its card countdowns keep their elapsed time.
C2_StunDoesNotGateDot ==
    last.ran =>
        /\ last.playerStunned =>
              /\ playerCards = last.playerCards0
              /\ DotsAdvanced(last.playerEffects2, last.playerApplied, last.dt)
              /\ playerHealth = last.playerHealth0 + HealthDue(last.playerEffects2, last.dt)
        /\ last.enemyStunned =>
              /\ last.enemyCards2 = last.enemyCards0
              /\ DotsAdvanced(last.enemyEffects2, last.enemyApplied, last.dt)
              /\ last.enemyHealth3 = last.enemyHealth0 + HealthDue(last.enemyEffects2, last.dt)

\* The player was stunned at the start of the step and holds a
\* DamageOverTime entry that took its amount in this step and in an earlier
\* one, with a card countdown that is under way.
C2_Witness ==
    /\ last.ran
    /\ last.playerStunned
    /\ playerHealth < last.playerHealth0
    /\ \E i \in 1..Len(last.playerApplied) :
          /\ last.playerApplied[i].kind = "DamageOverTime"
          /\ last.playerApplied[i].applied >= 2
          /\ last.playerApplied[i].applied > last.playerEffects2[i].applied
    /\ \E i \in 1..Len(playerCards) : playerCards[i].elapsed > 0

\* How often a card's countdown completed a period in the step: in the tick
\* of update_card_timers (from c0) and, if the attack system ticked it, in
\* that tick (from c1).
Completions(c0, c1, ticked, dt) ==
    (c0.elapsed + dt) \div c0.period
        + (IF ticked = 1 THEN (c1.elapsed + dt) \div c1.period ELSE 0)

\* C3: for a card of a combatant that is not stunned, every completion of
\* its countdown during a Battle step appends exactly one effect: the number
\* of effects the card emits in the step is the number of completions.
C3_EveryCompletionEmits ==
    last.ran =>
        /\ (last.enemyExisted /\ ~last.enemyStunned) =>
              \A i \in 1..Len(last.enemyCards0) :
                  last.enemyFired[i] = Completions(last.enemyCards0[i], last.enemyCards1[i],
                                                   last.enemyTicked[i], last.dt)
        /\ (~last.playerStunned /\ ~IsStunned(last.playerEffects1)) =>
              \A i \in 1..Len(last.playerCards0) :
                  last.playerFired[i] = Completions(last.playerCards0[i], last.playerCards1[i],
                                                    last.playerTicked[i], last.dt)

\* C4: in a Battle step with elapsed time dt, the countdown of every card of
\* a combatant that is not stunned advances by exactly dt, modulo its period.
C4_CardsAdvanceByDt ==
    last.ran =>
        /\ (last.enemyExisted /\ ~last.enemyStunned) =>
              \A i \in 1..Len(last.enemyCards0) :
                  last.enemyCards2[i].elapsed =
                      (last.enemyCards0[i].elapsed + last.dt) % last.enemyCards0[i].period
        /\ (~last.playerStunned /\ ~IsStunned(last.playerEffects1)) =>
              \A i \in 1..Len(last.playerCards0) :
                  playerCards[i].elapsed =
                      (last.playerCards0[i].elapsed + last.dt) % last.playerCards0[i].period

SpecOf(e) ==
    [kind |-> e.kind, amount |-> e.amount, duration |-> e.duration, frequency |-> e.frequency]

\* The effect specs of the cards that fired, of the given kinds, in card order.
RECURSIVE FiredSpecs(_, _, _)
FiredSpecs(cards, fired, kinds) ==
    IF cards = <<>> THEN <<>>
    ELSE (IF Head(fired) = 1 /\ Head(cards).effect.kind \in kinds
          THEN <<Head(cards).effect>> ELSE <<>>)
         \o FiredSpecs(Tail(cards), Tail(fired), kinds)

\* `after` is `before` with one fresh entry per spec appended, in order.
Extends(before, after, specs) ==
    /\ Len(after) = Len(before) + Len(specs)
    /\ \A i \in 1..Len(before) : after[i] = before[i]
    /\ \A j \in 1..Len(specs) : SpecOf(after[Len(before) + j]) = specs[j]

OneShot(e) == e.kind \in {"DirectDamage", "Heal"}

NoOneShot(effects) == \A i \in 1..Len(effects) : ~OneShot(effects[i])

\* Every DirectDamage or Heal of `before` was applied exactly once in the
\* pass and dropped by it.
OneShotsSpent(before, applied, gone, kept) ==
    \A i \in 1..Len(before) :
        OneShot(before[i]) =>
            /\ applied[i].applied = 1
            /\ Among(applied[i], gone)
            /\ ~Among(applied[i], kept)

\* C6: every DirectDamage or Heal in an effect list when the pass of a step
\* runs is applied to the owner's health exactly once in that step and is
\* absent from the list afterwards; after a Battle step no effect list
\* holds a DirectDamage or Heal.
C6_OneShotsNeverPersist ==
    /\ NoOneShot(playerEffects)
    /\ NoOneShot(enemyEffects)
    /\ last.ran =>
          /\ OneShotsSpent(last.playerEffects2, last.playerApplied, last.playerGone,
                           playerEffects)
          /\ playerHealth = last.playerHealth0 + HealthDue(last.playerEffects2, last.dt)
          /\ last.enemyExisted =>
                /\ OneShotsSpent(last.enemyEffects2, last.enemyApplied, last.enemyGone,
                                 last.enemyEffects3)
                /\ NoOneShot(last.enemyEffects3)
                /\ last.enemyHealth3 =
                      last.enemyHealth0 + HealthDue(last.enemyEffects2, last.dt)

\* A step in which both passes found a one-shot effect in their list.
C6_Witness ==
    /\ last.ran
    /\ \E i \in 1..Len(last.playerEffects2) : OneShot(last.playerEffects2[i])
    /\ \E i \in 1..Len(last.enemyEffects2) : OneShot(last.enemyEffects2[i])
    /\ playerHealth # last.playerHealth0
    /\ last.enemyHealth3 # last.enemyHealth0

Unexpired(e) == e.kind \in {"DamageOverTime", "Stun"} /\ e.d < e.duration

\* `kept` holds exactly the unexpired entries of `applied` and `gone` the
\* others.
OnlyUnexpiredKept(applied, kept, gone) ==
    /\ Len(kept) + Len(gone) = Len(applied)
    /\ \A i \in 1..Len(applied) :
          /\ Unexpired(applied[i]) => Among(applied[i], kept)
          /\ ~Unexpired(applied[i]) => Among(applied[i], gone) /\ ~Among(applied[i], kept)

\* C7: after each effect-application pass an effect list holds only
\* DamageOverTime and Stun entries whose duration timer has not elapsed; an
\* entry whose duration elapsed during the pass is removed in that pass.
C7_OnlyUnexpiredSurvive ==
    /\ \A i \in 1..Len(playerEffects) : Unexpired(playerEffects[i])
    /\ \A i \in 1..Len(enemyEffects) : Unexpired(enemyEffects[i])
    /\ last.ran =>
          /\ OnlyUnexpiredKept(last.playerApplied, playerEffects, last.playerGone)
          /\ last.enemyExisted =>
                /\ OnlyUnexpiredKept(last.enemyApplied, last.enemyEffects3, last.enemyGone)
                /\ \A i \in 1..Len(last.enemyEffects3) : Unexpired(last.enemyEffects3[i])

\* A pass removed a Stun whose duration elapsed in it and kept an unexpired
\* DamageOverTime.
C7_Witness ==
    /\ last.ran
    /\ \E i \in 1..Len(last.playerGone) :
          /\ last.playerGone[i].kind = "Stun"
          /\ last.playerGone[i].d = last.playerGone[i].duration
          /\ \E j \in 1..Len(last.playerEffects2) :
                /\ last.playerEffects2[j].kind = "Stun"
                /\ last.playerEffects2[j].d > 0
    /\ \E i \in 1..Len(playerEffects) : playerEffects[i].kind = "DamageOverTime"

AnyFired(fired) == \E i \in 1..Len(fired) : fired[i] = 1

\* C10: once a combatant's health is <= 0 at the end of a Battle step, none
\* of its cards emits an effect in a later step of the same phase, that is
\* in a following frame that runs the Battle systems without a state change.
C10_DeadNeverEmit ==
    [][ /\ (last.ran /\ PlayerDead(playerHealth)) =>
              ~(last'.ran /\ ~last'.changed /\ AnyFired(last'.playerFired))
        /\ (last.ran /\ last.enemyExisted /\ EnemyDead(last.enemyHealth3)) =>
              ~(last'.ran /\ ~last'.changed /\ AnyFired(last'.enemyFired))
      ]_vars

\* The DamageOverTime entries the last passes removed.
RemovedDots ==
    { last.playerGone[i] : i \in 1..Len(last.playerGone) }
        \cup { last.enemyGone[i] : i \in 1..Len(last.enemyGone) }

\* The DamageOverTime entries still attached.
AttachedDots ==
    { playerEffects[i] : i \in 1..Len(playerEffects) }
        \cup { enemyEffects[i] : i \in 1..Len(enemyEffects) }

Floor(a, b) == a \div b

Ceil(a, b) == (a + b - 1) \div b

\* C8 as stated: a DamageOverTime with duration D and frequency F <= D has
\* applied its amount floor(D/F) or ceil(D/F) times when it is removed,
\* whatever the elapsed times of the steps that ticked it.
C8_DotAppliesFloorOrCeil ==
    \A e \in RemovedDots :
        (e.kind = "DamageOverTime" /\ e.frequency <= e.duration) =>
            e.applied \in {Floor(e.duration, e.frequency), Ceil(e.duration, e.frequency)}

\* C8 amended: a DamageOverTime with duration D and frequency F <= D that
\* was ticked only by steps of elapsed time at most F has applied its amount
\* floor(D/F) or ceil(D/F) times when it is removed.
C8_DotAppliesFloorOrCeilShortSteps ==
    \A e \in RemovedDots :
        (e.kind = "DamageOverTime" /\ e.frequency <= e.duration
            /\ e.longest <= e.frequency) =>
            e.applied \in {Floor(e.duration, e.frequency), Ceil(e.duration, e.frequency)}

\* A DamageOverTime whose duration is no multiple of its frequency was
\* removed after steps no longer than the frequency, some of them shorter,
\* having applied ceil(D/F) > 1 times.
C8_Witness ==
    \E e \in RemovedDots :
        /\ e.kind = "DamageOverTime"
        /\ e.frequency < e.duration
        /\ e.duration % e.frequency # 0
        /\ e.longest <= e.frequency
        /\ e.applied = Ceil(e.duration, e.frequency)
        /\ e.d = e.duration

\* C9: over its whole lifetime a DamageOverTime with duration D and
\* frequency F takes its amount from the owner's health at most D/F + 1
\* times, whatever the elapsed times of the steps.
C9_DotApplicationsBounded ==
    \A e \in RemovedDots \cup AttachedDots :
        e.kind = "DamageOverTime" =>
            e.applied * e.frequency <= e.duration + e.frequency

\* A removed DamageOverTime that applied more than D/F times, the last of
\* them in a step longer than its frequency.
C9_Witness ==
    \E e \in RemovedDots :
        /\ e.kind = "DamageOverTime"
        /\ e.applied >= 2
        /\ e.applied * e.frequency > e.duration
        /\ e.longest > e.frequency

(***************************************************************************)
(* Properties of the phase machine.  A step with frames' # frames is a     *)
(* Frame; the other steps are pointer clicks.                              *)
(***************************************************************************)
FrameStep == frames' # frames

\* The most recent frame ran the Battle systems and left the enemy /
\* the player with health <= 0 after effect application.
EnemyDiedInLastStep == last.ran /\ last.enemyExisted /\ EnemyDead(last.enemyHealth3)

PlayerDiedInLastStep == last.ran /\ PlayerDead(playerHealth)

\* C11: the "new run" activation in GameOver sets the player's health to
\* 100, removes the game-over screen and makes Battle the next phase, so
\* the Battle phase it leads to starts with player health > 0.
C11_NewRunResetsHealth ==
    [][ (ClickNewRun /\ state = "GameOver") =>
            /\ playerHealth' = StartHealth
            /\ menuItems' = 0
            /\ next_state' = "Battle"
      ]_vars

\* C12: after a Battle step whose effect application leaves the enemy's
\* health <= 0 the enemy entity is gone and the phase of the next frame is
\* LootScreen.
C12_DeadEnemyLeadsToLoot ==
    [][ EnemyDiedInLastStep =>
            /\ enemyCount = 0
            /\ (FrameStep => state' = "LootScreen")
      ]_vars

\* C13: after a Battle step whose effect application leaves the player's
\* health <= 0 the phase of the next frame is GameOver, and the player's
\* health, effects and cards are still those the step left.
C13_DeadPlayerLeadsToGameOver ==
    [][ PlayerDiedInLastStep =>
            (FrameStep =>
                /\ state' = "GameOver"
                /\ UNCHANGED <<playerHealth, playerEffects, playerCards>>)
      ]_vars

\* C14: a frame in which the inventory key was pressed, with no click
\* after it, is followed by Battle when the phase is Menu and by the same
\* phase when it is LootScreen or GameOver.
C14_ToggleOnlyBattleMenu ==
    [][ (last.key /\ ~clicked /\ FrameStep) =>
            /\ (state = "Menu" => state' = "Battle")
            /\ (state \in {"LootScreen", "GameOver"} => state' = state)
      ]_vars

\* A frame entered Battle from another phase.
EnteredBattle == FrameStep /\ last'.changed /\ state' = "Battle"

\* C16: battle entry with an enemy present creates none and hands the
\* existing enemy's health, effect list and cards unchanged to the Battle
\* systems; after any battle entry there is exactly one enemy.
C16_BattleEntryIdempotent ==
    [][ EnteredBattle =>
            /\ last'.enemyCount0 = 1
            /\ enemyCount >= 1 =>
                  /\ last'.enemyCount0 = enemyCount
                  /\ last'.enemyHealth0 = enemyHealth
                  /\ last'.enemyEffects0 = enemyEffects
                  /\ last'.enemyCards0 = enemyCards
      ]_vars

\* Battle was re-entered from the Menu with an enemy that had already taken
\* damage and still has it.
C16_Witness ==
    /\ last.ran /\ last.changed /\ last.from = "Menu"
    /\ last.enemyCount0 = 1
    /\ last.enemyHealth0 < StartHealth
    /\ last.enemyHealth0 > 0

\* C17: there is never more than one enemy entity, and whenever the Battle
\* systems run exactly one exists.  (No system spawns or despawns a
\* PlayerEntity after setup, so the player half has no step to check.)
C17_OneEnemyInBattle ==
    /\ enemyCount <= 1
    /\ last.ran => last.enemyCount0 = 1

\* The combat state: healths, effect lists and card countdowns.
combat == <<playerHealth, playerEffects, playerCards, enemyCount, enemyExists,
            enemyHealth, enemyEffects, enemyCards>>

\* C18: no frame whose phase is Menu, LootScreen or GameOver, and no click
\* made in one of those phases, changes the combat state; a frame that
\* changes it ran the Battle systems.
C18_CombatOnlyInBattle ==
    [][ /\ (FrameStep /\ state' # "Battle") => UNCHANGED combat
        /\ (~FrameStep /\ state # "Battle") => UNCHANGED combat
        /\ ~(UNCHANGED combat) => (FrameStep /\ state' = "Battle" /\ last'.ran)
      ]_vars

\* A frame spent in the Menu, entered from a Battle in which both sides
\* had taken damage or hold effects.
C18_Witness ==
    /\ state = "Menu" /\ last.from = "Menu" /\ ~last.ran
    /\ enemyCount = 1
    /\ playerHealth # StartHealth
    /\ enemyHealth # StartHealth
    /\ playerEffects # <<>>

\* C20: the loot-all activation changes the inventory and the pending
\* phase only in LootScreen, the new-run activation changes player health,
\* the game-over screen and the pending phase only in GameOver; in any
\* other phase the activation changes nothing.
C20_HandlersCheckPhase ==
    [][ /\ (ClickLootAll /\ state # "LootScreen") =>
              UNCHANGED <<inventory, next_state>>
        /\ (ClickNewRun /\ state # "GameOver") =>
              UNCHANGED <<playerHealth, menuItems, next_state>>
      ]_vars

(***************************************************************************)
(* Properties of the inventory.                                            *)
(***************************************************************************)
Items(s) == { s[i] : i \in 1..Len(s) }

Count(x, s) == Cardinality({ i \in 1..Len(s) : s[i] = x })

IsPrefix(a, b) == Len(a) <= Len(b) /\ SubSeq(b, 1, Len(a)) = a

\* C15: the loot-all activation leaves in the inventory each item as often
\* as it was in the inventory plus as often as it is on the loot screen,
\* and the phase of the next frame is Battle.
C15_LootAllTransfers ==
    [][ /\ ClickLootAll =>
              /\ \A x \in Items(inventory) \cup Items(inventory')
                              \cup Items(Flatten(lootScreens)) :
                    Count(x, inventory') =
                        Count(x, inventory) + Count(x, Flatten(lootScreens))
              /\ next_state' = "Battle"
        /\ (clicked /\ state = "LootScreen" /\ FrameStep) => state' = "Battle"
      ]_vars

\* Loot-all was activated on a loot screen with an inventory that already
\* held items, some of them equal to items on the screen.
C15_Witness ==
    /\ clicked /\ state = "LootScreen" /\ next_state = "Battle"
    /\ lootScreens # <<>>
    /\ Len(inventory) > LootCount
    /\ \E i \in 1..(Len(inventory) - LootCount) :
          inventory[i] \in Items(Flatten(lootScreens))

\* C19: no step removes or reorders what the inventory holds, only the
\* loot-all activation adds to it, and no frame changes it.
C19_InventoryAppendOnly ==
    [][ /\ IsPrefix(inventory, inventory')
        /\ inventory' # inventory => ClickLootAll
        /\ FrameStep => inventory' = inventory
      ]_vars

\* A Battle step ran with an inventory that two loot-all activations filled.
C19_Witness ==
    /\ last.ran /\ state = "Battle"
    /\ Len(inventory) > LootCount
    /\ playerHealth # StartHealth

(***************************************************************************)
(* Properties of the effect passes and of the order of the Battle chain.   *)
(***************************************************************************)
Timed(e) == e.kind \in {"DamageOverTime", "Stun"}

\* Every DamageOverTime and Stun of `before` has, in the pass's `ticked`
\* list, its duration countdown advanced by dt up to the duration, and is
\* among the removed and not among the kept entries once it got there.
DurationsRunOut(before, ticked, kept, gone, dt) ==
    /\ Len(ticked) = Len(before)
    /\ \A i \in 1..Len(before) :
          Timed(before[i]) =>
              /\ before[i].d < before[i].duration
              /\ ticked[i].d = Min(before[i].d + dt, before[i].duration)
              /\ ticked[i].d > before[i].d
              /\ ticked[i].d >= ticked[i].duration =>
                    Among(ticked[i], gone) /\ ~Among(ticked[i], kept)
    /\ \A j \in 1..Len(kept) : kept[j].d < kept[j].duration

\* C21: every pass of positive elapsed time moves the duration countdown of
\* every attached DamageOverTime and Stun forward, whatever else is
\* attached, and the pass in which it reaches the duration removes the
\* entry: no entry outlives its duration.
C21_TimedEffectsRunOut ==
    last.ran =>
        /\ last.dt > 0
        /\ DurationsRunOut(last.playerEffects2, last.playerApplied, playerEffects,
                           last.playerGone, last.dt)
        /\ last.enemyExisted =>
              DurationsRunOut(last.enemyEffects2, last.enemyApplied, last.enemyEffects3,
                              last.enemyGone, last.dt)

\* A pass removed a DamageOverTime that ran out after it had survived an
\* earlier pass, from a list that held other entries too.
C21_Witness ==
    /\ last.ran
    /\ Len(last.playerApplied) >= 2
    /\ \E i \in 1..Len(last.playerApplied) :
          /\ last.playerApplied[i].kind = "DamageOverTime"
          /\ last.playerEffects2[i].d > 0
          /\ last.playerApplied[i].d = last.playerApplied[i].duration
          /\ Among(last.playerApplied[i], last.playerGone)

\* The entry is what the card's effect spec stands for, not yet ticked: the
\* same kind and amount, countdowns of the spec's lengths at zero.
Fresh(e, spec) ==
    /\ e.kind = spec.kind
    /\ e.amount = spec.amount
    /\ e.kind = "DamageOverTime" =>
          /\ e.duration = spec.duration /\ e.d = 0
          /\ e.frequency = spec.frequency /\ e.f = 0
    /\ e.kind = "Stun" => (e.duration = spec.duration /\ e.d = 0)

\* `after` is `before` plus one fresh entry per spec.
Instantiated(before, after, specs) ==
    /\ Len(after) = Len(before) + Len(specs)
    /\ \A j \in 1..Len(specs) : Fresh(after[Len(before) + j], specs[j])

\* C22: every entry an attack system pushes is the fresh instance of the
\* firing card's effect spec, for the enemy's cards and for the player's,
\* and both systems build the same entry from the same spec.
C22_InstantiationKeepsSpec ==
    /\ \A spec \in get_random_effect : enemy_instantiate(spec) = player_instantiate(spec)
    /\ last.ran =>
          /\ Instantiated(last.playerEffects0, last.playerEffects1,
                          FiredSpecs(last.enemyCards0, last.enemyFired, EffectKinds))
          /\ Instantiated(last.enemyEffects1, last.enemyEffects2,
                          FiredSpecs(last.playerCards0, last.playerFired,
                                     EffectKinds \ {"Heal"}))
          /\ Instantiated(last.playerEffects1, last.playerEffects2,
                          FiredSpecs(last.playerCards0, last.playerFired, {"Heal"}))

\* In one step a player card emitted a DamageOverTime and an enemy card
\* emitted an effect.
C22_Witness ==
    /\ last.ran
    /\ \E i \in 1..Len(last.playerFired) :
          last.playerFired[i] = 1 /\ last.playerCards0[i].effect.kind = "DamageOverTime"
    /\ AnyFired(last.enemyFired)

\* C23: an effect-application pass adds to the owner's health exactly the
\* Heal amounts minus the DirectDamage amounts minus the amounts of the
\* DamageOverTime entries whose frequency completed in the pass; Stun
\* entries add nothing and the sum is clamped neither at 0 nor at 100.
C23_PassChangesHealthExactly ==
    last.ran =>
        /\ playerHealth = last.playerHealth0 + HealthDue(last.playerEffects2, last.dt)
        /\ last.enemyExisted =>
              last.enemyHealth3 = last.enemyHealth0 + HealthDue(last.enemyEffects2, last.dt)

\* A pass over a list with DirectDamage entries took a player with positive
\* health below zero.
C23_Witness ==
    /\ last.ran
    /\ last.playerHealth0 > 0
    /\ playerHealth < 0
    /\ \E i \in 1..Len(last.playerEffects2) : last.playerEffects2[i].kind = "DirectDamage"

RECURSIVE SumAmounts(_, _)
SumAmounts(effects, kinds) ==
    IF effects = <<>> THEN 0
    ELSE (IF Head(effects).kind \in kinds THEN Head(effects).amount ELSE 0)
         + SumAmounts(Tail(effects), kinds)

\* No entry of `before` changed the health more than once in the pass, and
\* the health moved by no more than one amount per entry.
AppliedAtMostOnce(before, ticked, health0, health1) ==
    /\ Len(ticked) = Len(before)
    /\ \A i \in 1..Len(before) :
          ticked[i].applied - before[i].applied \in {0, 1}
    /\ health1 >= health0 - SumAmounts(before, {"DirectDamage", "DamageOverTime"})
    /\ health1 <= health0 + SumAmounts(before, {"Heal"})

\* C24: in one Battle step every entry changes its owner's health at most
\* once by its amount; a DamageOverTime takes its amount at most once even
\* when the step covers several of its frequency periods.
C24_AtMostOneApplicationPerStep ==
    last.ran =>
        /\ AppliedAtMostOnce(last.playerEffects2, last.playerApplied,
                             last.playerHealth0, playerHealth)
        /\ last.enemyExisted =>
              AppliedAtMostOnce(last.enemyEffects2, last.enemyApplied,
                                last.enemyHealth0, last.enemyHealth3)

\* A step at least twice as long as the frequency of an attached
\* DamageOverTime, the only entry of its list, took its amount once.
C24_Witness ==
    /\ last.ran
    /\ Len(last.playerEffects2) = 1
    /\ last.playerEffects2[1].kind = "DamageOverTime"
    /\ last.dt >= 2 * last.playerEffects2[1].frequency
    /\ last.playerApplied[1].applied = last.playerEffects2[1].applied + 1
    /\ playerHealth = last.playerHealth0 - last.playerEffects2[1].amount

\* The pass ticked, entry by entry, the list the attack systems left.
PassRanOver(list, ticked) ==
    /\ Len(ticked) = Len(list)
    /\ \A i \in 1..Len(list) : SpecOf(ticked[i]) = SpecOf(list[i])

\* C25: in one Battle step the enemy's cards emit before the player's, the
\* effect passes run over the lists that hold this step's emissions, and
\* the death checks see the healths the passes left: an enemy at <= 0 is
\* despawned in this step and only then, and a player at <= 0 has GameOver
\* requested in this step (as long as no key or click replaces the request)
\* and only then.
C25_StepOrder ==
    last.ran =>
        /\ Len(last.playerEffects1) =
              Len(last.playerEffects0)
                  + Len(FiredSpecs(last.enemyCards0, last.enemyFired, EffectKinds))
        /\ Len(last.playerEffects2) >= Len(last.playerEffects1)
        /\ PassRanOver(last.playerEffects2, last.playerApplied)
        /\ playerHealth = last.playerHealth0 + HealthDue(last.playerEffects2, last.dt)
        /\ last.enemyExisted =>
              /\ PassRanOver(last.enemyEffects2, last.enemyApplied)
              /\ EnemyDead(last.enemyHealth3) <=> enemyCount = 0
        /\ (~last.key /\ ~clicked) =>
              /\ PlayerDead(playerHealth) <=> next_state = "GameOver"
              /\ (~PlayerDead(playerHealth) /\ enemyCount = 1) => next_state = "None"

\* A DirectDamage emitted by an enemy card in this step took the player
\* from positive health to <= 0 in this step, and GameOver is requested.
C25_Witness ==
    /\ last.ran
    /\ \E i \in 1..Len(last.enemyFired) :
          last.enemyFired[i] = 1 /\ last.enemyCards0[i].effect.kind = "DirectDamage"
    /\ last.playerHealth0 > 0
    /\ PlayerDead(playerHealth)
    /\ next_state = "GameOver"

\* The entities as the attack systems of the last step left them, before
\* the effect passes.
Attacked ==
    [World EXCEPT !.playerHealth = last.playerHealth0,
                  !.playerEffects = last.playerEffects2,
                  !.enemyCount = last.enemyCount0,
                  !.enemyExists = last.enemyExisted,
                  !.enemyHealth = last.enemyHealth0,
                  !.enemyEffects = last.enemyEffects2]

\* C26: on the entities the attack systems left, and for any elapsed time,
\* the player's pass followed by the enemy's gives the same healths and
\* effect lists as the enemy's followed by the player's, and each pass
\* leaves the other combatant's health and effect list as they were.
C26_PassesCommute ==
    (last.ran /\ last.enemyExisted) =>
        \A dt \in 1..MaxDt :
            LET p == player_effects_pass(Attacked, dt)
                e == enemy_effects_pass(Attacked, dt)
            IN  /\ enemy_effects_pass(p, dt) = player_effects_pass(e, dt)
                /\ p.enemyHealth = Attacked.enemyHealth
                /\ p.enemyEffects = Attacked.enemyEffects
                /\ e.playerHealth = Attacked.playerHealth
                /\ e.playerEffects = Attacked.playerEffects

\* Both passes of the last step had entries to apply and changed their
\* combatant's health.
C26_Witness ==
    /\ last.ran /\ last.enemyExisted
    /\ last.playerEffects2 # <<>> /\ last.enemyEffects2 # <<>>
    /\ playerHealth # last.playerHealth0
    /\ last.enemyHealth3 # last.enemyHealth0

\* The entries of `ticked` whose duration has not run out, in the order of
\* `ticked`.
RECURSIVE Survivors(_)
Survivors(ticked) ==
    IF ticked = <<>> THEN <<>>
    ELSE (IF Unexpired(Head(ticked)) THEN <<Head(ticked)>> ELSE <<>>)
         \o Survivors(Tail(ticked))

\* C27: a pass keeps the surviving entries in the order they had in the
\* list, and the emissions of a step only append: the list before each
\* attack system is a prefix of the list after it.
C27_OrderPreserved ==
    last.ran =>
        /\ playerEffects = Survivors(last.playerApplied)
        /\ IsPrefix(last.playerEffects0, last.playerEffects1)
        /\ IsPrefix(last.playerEffects1, last.playerEffects2)
        /\ last.enemyExisted =>
              /\ last.enemyEffects3 = Survivors(last.enemyApplied)
              /\ IsPrefix(last.enemyEffects0, last.enemyEffects1)
              /\ IsPrefix(last.enemyEffects1, last.enemyEffects2)

\* A pass dropped an entry and kept two unlike ones, the later of them
\* attached in this same step behind an entry of an earlier step.
C27_Witness ==
    /\ last.ran
    /\ last.playerGone # <<>>
    /\ Len(playerEffects) >= 2
    /\ playerEffects[1].kind # playerEffects[2].kind
    /\ last.playerEffects0 # <<>>
    /\ Len(last.playerEffects2) > Len(last.playerEffects0)

\* C28: a Stun pushed by an enemy card in a step keeps every player card
\* from emitting in that step, while the enemy's cards emit in a step
\* whenever the enemy was not stunned when the step began and their
\* countdown completed, whatever the player's cards push in that step; a
\* Stun of the player's gates the enemy from the next step on.
C28_SameStepStunAsymmetric ==
    last.ran =>
        /\ FiredSpecs(last.enemyCards0, last.enemyFired, {"Stun"}) # <<>>
              => NoneFired(last.playerFired)
        /\ last.enemyExisted =>
              \A i \in 1..Len(last.enemyFired) :
                  last.enemyFired[i] = 1 <=>
                      /\ ~IsStunned(last.enemyEffects0)
                      /\ CardFinished(last.enemyCards1[i], last.dt)
        /\ (last.enemyExisted /\ IsStunned(last.enemyEffects0))
              => NoneFired(last.enemyFired)

\* A player card pushed a Stun in a step in which an enemy card emitted too.
C28_Witness ==
    /\ last.ran
    /\ FiredSpecs(last.playerCards0, last.playerFired, {"Stun"}) # <<>>
    /\ AnyFired(last.enemyFired)

\* C29: in no reachable state do the player's effect list and the enemy's
\* effect list each hold an unexpired Stun.
\* It is stated of the lists between frames and of the lists between the
\* systems of a step.
C29_NeverBothStunned ==
    /\ ~(IsStunned(playerEffects) /\ IsStunned(enemyEffects))
    /\ last.ran =>
          /\ ~(IsStunned(last.playerEffects0) /\ IsStunned(last.enemyEffects0))
          /\ ~(IsStunned(last.playerEffects1) /\ IsStunned(last.enemyEffects1))
          /\ ~(IsStunned(last.playerEffects2) /\ IsStunned(last.enemyEffects2))

\* The player is left stunned by a Stun an enemy card pushed in a step in
\* which a Stun card of the player's was due, and the enemy is not stunned.
C29_Witness ==
    /\ last.ran
    /\ FiredSpecs(last.enemyCards0, last.enemyFired, {"Stun"}) # <<>>
    /\ \E i \in 1..Len(last.playerCards1) :
          /\ last.playerCards1[i].effect.kind = "Stun"
          /\ CardFinished(last.playerCards1[i], last.dt)
    /\ IsStunned(playerEffects)
    /\ ~IsStunned(enemyEffects)

\* C30: after a Battle step whose effect application leaves both the
\* player's and the enemy's health <= 0 the enemy entity is gone, the phase
\* of the next frame is GameOver, and that frame adds no loot screen.
C30_TieLeadsToGameOver ==
    [][ (EnemyDiedInLastStep /\ PlayerDiedInLastStep) =>
            /\ enemyCount = 0
            /\ (FrameStep =>
                   /\ state' = "GameOver"
                   /\ Len(lootScreens') = Len(lootScreens))
      ]_vars

(***************************************************************************)
(* Properties of the entities across the phases.                           *)
(***************************************************************************)
PlayerKept == UNCHANGED <<playerHealth, playerEffects, playerCards>>

\* C31: the frame that enters LootScreen from Battle leaves the player's
\* health, effect list and cards as the last Battle step left them and
\* leaves no enemy and no enemy card; no frame or click in LootScreen
\* changes them; and the frame that enters Battle from LootScreen starts
\* its Battle systems with the player's health, effects and cards as they
\* were, and with one enemy of health 100, no effects and 1..3 cards whose
\* countdowns are at zero.
C31_CarriedAcrossLoot ==
    [][ /\ (state = "Battle" /\ state' = "LootScreen") =>
              /\ PlayerKept
              /\ enemyCount' = 0 /\ ~enemyExists'
              /\ enemyCards' = <<>> /\ enemyEffects' = <<>>
        /\ (state = "LootScreen" /\ state' = "LootScreen") => PlayerKept
        /\ (state = "LootScreen" /\ state' = "Battle") =>
              /\ last'.ran
              /\ last'.playerHealth0 = playerHealth
              /\ last'.playerEffects0 = playerEffects
              /\ last'.playerCards0 = playerCards
              /\ last'.enemyExisted /\ last'.enemyCount0 = 1
              /\ last'.enemyHealth0 = StartHealth
              /\ last'.enemyEffects0 = <<>>
              /\ Len(last'.enemyCards0) \in 1..3
              /\ \A i \in 1..Len(last'.enemyCards0) : last'.enemyCards0[i].elapsed = 0
      ]_vars

\* A Battle entered from LootScreen began with a hurt player who carried a
\* running countdown of an effect and of a card.
C31_Witness ==
    /\ state = "Battle" /\ last.ran /\ last.changed /\ last.from = "LootScreen"
    /\ last.playerHealth0 < StartHealth
    /\ \E i \in 1..Len(last.playerEffects0) : last.playerEffects0[i].d > 0
    /\ \E i \in 1..Len(last.playerCards0) : last.playerCards0[i].elapsed > 0
    /\ last.enemyHealth0 = StartHealth

\* C32: at most one game-over screen exists, none exists while the phase
\* is Battle, Menu or LootScreen, and one exists while the phase is
\* GameOver and no "New run" click is waiting for its transition.
C32_GameOverScreenOnlyInGameOver ==
    /\ menuItems <= 1
    /\ state \in {"Battle", "Menu", "LootScreen"} => menuItems = 0
    /\ (state = "GameOver" /\ ~clicked) => menuItems = 1

====
